---------------------------- MODULE Spec2Model ----------------------------
(* A model of business_day_finder.py: the weekend generator, the holiday   *)
(* aggregator, the exclusion-set builder, the date parser and the business *)
(* day walker.  A calendar date is its proleptic Gregorian ordinal, as     *)
(* datetime.date.toordinal() gives it: 0001-01-01 is 1, 9999-12-31 is      *)
(* 3652059.  A Python list whose order no caller reads is a bag.           *)
EXTENDS Integers, Sequences, FiniteSets, Bags, TLC

VARIABLES
    pc,                     \* where the running call stands
    caller,                 \* who called generate_weekend_dates_list and
                            \* combine_subdivision_holidays: the client or
                            \* weekend_and_holiday_dates
    years,                  \* argument: list of years
    locations_dict,         \* argument: the jurisdictions, in insertion order
    yi,                     \* position of `for year in years`
    weekend_dates_list,     \* generate_weekend_dates_list's accumulator
    li,                     \* position of `for ... in locations_dict.items()`
    combined_holidays,      \* combine_subdivision_holidays's accumulator
    weekends_and_holidays,  \* weekend_and_holiday_dates's returned list (a bag)
    date_str,               \* argument of convert_to_date
    parsed_date,            \* convert_to_date's returned date
    base_date,              \* argument of find_business_day
    exclusion,              \* argument weekends_and_holiday_dates of find_business_day
    direction,              \* argument of find_business_day
    step,                   \* find_business_day's step
    current_date,           \* find_business_day's cursor
    nsteps,                 \* how many times the loop body of find_business_day ran
    err                     \* the exception that ended the call, or "none"

vars == <<pc, caller, years, locations_dict, yi, weekend_dates_list, li,
          combined_holidays, weekends_and_holidays, date_str, parsed_date,
          base_date, exclusion, direction, step, current_date, nsteps, err>>

---------------------------------------------------------------------------
(* Bounds of the model.                                                    *)
MaxYears == 2
MaxLocations == 2
WalkWindow == 3

---------------------------------------------------------------------------
(* The calendar of Python's datetime module.                               *)
MINYEAR == 1
MAXYEAR == 9999

IsLeap(y) == (y % 4 = 0) /\ ((y % 100 # 0) \/ (y % 400 = 0))

DaysInMonth(y, m) ==
    IF m = 2 THEN (IF IsLeap(y) THEN 29 ELSE 28)
    ELSE IF m \in {4, 6, 9, 11} THEN 30 ELSE 31

DaysBeforeYear(y) ==
    LET p == y - 1 IN p * 365 + (p \div 4) - (p \div 100) + (p \div 400)

DaysBeforeMonth(y, m) ==
    <<0, 31, 59, 90, 120, 151, 181, 212, 243, 273, 304, 334>>[m]
        + (IF m > 2 /\ IsLeap(y) THEN 1 ELSE 0)

\* date(y, m, d) raises ValueError unless this holds
ValidYmd(y, m, d) ==
    /\ y \in MINYEAR..MAXYEAR
    /\ m \in 1..12
    /\ d \in 1..DaysInMonth(y, m)

\* date(y, m, d).toordinal()
Ymd2Ord(y, m, d) == DaysBeforeYear(y) + DaysBeforeMonth(y, m) + d

MinOrdinal == Ymd2Ord(MINYEAR, 1, 1)
MaxOrdinal == Ymd2Ord(MAXYEAR, 12, 31)

\* date + timedelta raises OverflowError unless the sum is a date
InRange(o) == o \in MinOrdinal..MaxOrdinal

\* date.weekday(): Monday is 0, Saturday 5, Sunday 6
Weekday(o) == (o + 6) % 7

Range(s) == {s[i] : i \in DOMAIN s}

\* the sequences over S of length at most n
SeqsUpTo(S, n) == UNION {[1..k -> S] : k \in 0..n}

\* a list as a bag: each element with the number of times it occurs
ListToBag(s) == [x \in Range(s) |-> Cardinality({i \in DOMAIN s : s[i] = x})]

---------------------------------------------------------------------------
(* Errors: the exception's kind and the function whose code raised it.     *)
NoError == [kind |-> "none", at |-> ""]
Raise(kind, at) == [kind |-> kind, at |-> at]

---------------------------------------------------------------------------
(* generate_weekend_dates_list                                             *)

\* one pass of the while loop's body: the weekend test and append, then
\* current_date += timedelta(days=1), which runs for December 31 as well
WeekendBody(current, result_list) ==
    LET appended == IF Weekday(current) \in {5, 6}
                    THEN Append(result_list, current)
                    ELSE result_list
    IN [err |-> IF InRange(current + 1) THEN NoError
                ELSE Raise("OverflowError", "generate_weekend_dates_list"),
        list |-> appended]

\* while current_date <= end_date: the body for current..end_date in
\* ascending order, ended by the first error.  The range is folded by
\* halves, which keeps the evaluation shallow.
RECURSIVE WeekendWhile(_, _, _)
WeekendWhile(current, end_date, result_list) ==
    IF current > end_date THEN [err |-> NoError, list |-> result_list]
    ELSE IF current = end_date THEN WeekendBody(current, result_list)
    ELSE LET mid == (current + end_date) \div 2
             left == WeekendWhile(current, mid, result_list)
         IN IF left.err # NoError THEN left
            ELSE WeekendWhile(mid + 1, end_date, left.list)

\* the body of `for year in years`: datetime(year, 1, 1) and
\* datetime(year, 12, 31) raise ValueError for a year datetime does not have
WeekendsOfYear(year) ==
    IF year \notin MINYEAR..MAXYEAR
    THEN [err |-> Raise("ValueError", "generate_weekend_dates_list"), list |-> <<>>]
    ELSE WeekendWhile(Ymd2Ord(year, 1, 1), Ymd2Ord(year, 12, 31), <<>>)

---------------------------------------------------------------------------
(* The holiday-data provider, holidays.country_holidays: a stub of the     *)
(* external library.  It rejects a country/subdivision pair it does not    *)
(* know and otherwise returns a mapping whose keys are the holiday dates   *)
(* of the years asked for, each date once.                                 *)
Supported(country, subdivision) ==
    <<country, subdivision>> \in {<<"US", "CA">>, <<"AU", "NSW">>}

HolidayTable(country, subdivision) ==
    IF country = "US"
    THEN <<(<<1, 1>>), (<<3, 31>>), (<<7, 4>>), (<<12, 25>>)>>
    ELSE <<(<<1, 1>>), (<<1, 26>>), (<<12, 25>>), (<<12, 26>>)>>

HolidaysOfYear(country, subdivision, year) ==
    LET t == HolidayTable(country, subdivision)
    IN [k \in DOMAIN t |-> Ymd2Ord(year, t[k][1], t[k][2])]

\* the keys of a mapping filled in this order: a key is kept once
RECURSIVE DictKeys(_)
DictKeys(s) ==
    IF s = <<>> THEN <<>>
    ELSE LET front == DictKeys(SubSeq(s, 1, Len(s) - 1))
             last == s[Len(s)]
         IN IF last \in Range(front) THEN front ELSE Append(front, last)

RECURSIVE HolidaysOfYears(_, _, _)
HolidaysOfYears(country, subdivision, ys) ==
    IF ys = <<>> THEN <<>>
    ELSE HolidaysOfYear(country, subdivision, Head(ys))
            \o HolidaysOfYears(country, subdivision, Tail(ys))

country_holidays(country, subdivision, ys) ==
    IF Supported(country, subdivision)
    THEN [err |-> NoError,
          keys |-> DictKeys(HolidaysOfYears(country, subdivision, ys))]
    ELSE [err |-> Raise("UnsupportedJurisdiction", "country_holidays"),
          keys |-> <<>>]

---------------------------------------------------------------------------
(* combine_subdivision_holidays                                            *)

\* combined_holidays.extend(date for date in dates_only_list
\*                          if date not in combined_holidays):
\* the generator is consumed while the list grows, so each test sees the
\* dates appended before it
\* (the same with the membership test left out)
ExtendUniquePlain(combined, dates_only_list) == combined \o dates_only_list

RECURSIVE ExtendUnique(_, _)
ExtendUnique(combined, dates_only_list) ==
    IF dates_only_list = <<>> THEN combined
    ELSE LET d == Head(dates_only_list)
         IN ExtendUnique(IF d \in Range(combined) THEN combined
                         ELSE Append(combined, d),
                         Tail(dates_only_list))

---------------------------------------------------------------------------
(* weekend_and_holiday_dates                                               *)

\* list(weekends_list + holidays_list): the concatenation as it is
KeepDuplicates(weekends_list, holidays_list) ==
    ListToBag(weekends_list \o holidays_list)

\* list(set(weekends_list + holidays_list)), in no particular order
UniqueInstances(weekends_list, holidays_list) ==
    SetToBag(Range(weekends_list \o holidays_list))

---------------------------------------------------------------------------
(* convert_to_date: datetime.strptime(date_str, '%Y-%m-%d').date().  A     *)
(* string is the sequence of its characters.  strptime matches the regular *)
(* expression                                                              *)
(*   (?P<Y>\d\d\d\d)-(?P<m>1[0-2]|0[1-9]|[1-9])-                           *)
(*   (?P<d>3[0-1]|[1-2]\d|0[1-9]|[1-9]| [1-9])                             *)
(* at the start of the string, fails when text remains after the match,    *)
(* and then builds the date, which fails for a date the calendar lacks.    *)
(* \d also matches the decimal digits outside ASCII; the strings here are  *)
(* ASCII.                                                                  *)
DigitChars == <<"0", "1", "2", "3", "4", "5", "6", "7", "8", "9">>

IsDigit(c) == c \in Range(DigitChars)

DigitVal(c) == (CHOOSE k \in DOMAIN DigitChars : DigitChars[k] = c) - 1

\* the character at position i, "" past the end
At(s, i) == IF i \in DOMAIN s THEN s[i] ELSE ""

Nonzero(c) == IsDigit(c) /\ c # "0"

\* the alternatives of %m that match at i, in the order the regex tries
\* them: each is <<length, value>>
MonthAlternatives(s, i) ==
    LET a == At(s, i)
        b == At(s, i + 1)
    IN (IF a = "1" /\ b \in {"0", "1", "2"}
        THEN <<(<<2, 10 + DigitVal(b)>>)>> ELSE <<>>)
       \o (IF a = "0" /\ Nonzero(b) THEN <<(<<2, DigitVal(b)>>)>> ELSE <<>>)
       \o (IF Nonzero(a) THEN <<(<<1, DigitVal(a)>>)>> ELSE <<>>)

\* the alternatives of %d that match at i, in the order the regex tries them
DayAlternatives(s, i) ==
    LET a == At(s, i)
        b == At(s, i + 1)
    IN (IF a = "3" /\ b \in {"0", "1"}
        THEN <<(<<2, 30 + DigitVal(b)>>)>> ELSE <<>>)
       \o (IF a \in {"1", "2"} /\ IsDigit(b)
           THEN <<(<<2, 10 * DigitVal(a) + DigitVal(b)>>)>> ELSE <<>>)
       \o (IF a = "0" /\ Nonzero(b) THEN <<(<<2, DigitVal(b)>>)>> ELSE <<>>)
       \o (IF Nonzero(a) THEN <<(<<1, DigitVal(a)>>)>> ELSE <<>>)
       \o (IF a = " " /\ Nonzero(b) THEN <<(<<2, DigitVal(b)>>)>> ELSE <<>>)

\* the month alternatives after which "-" and a day follow: the regex
\* backtracks over the month until the rest of the pattern matches
MonthChoices(s) ==
    SelectSeq(MonthAlternatives(s, 6),
              LAMBDA alt : /\ At(s, 6 + alt[1]) = "-"
                           /\ DayAlternatives(s, 7 + alt[1]) # <<>>)

strptime(s) ==
    LET bad == [ok |-> FALSE, date |-> 0]
    IN IF ~(\A i \in 1..4 : IsDigit(At(s, i))) \/ At(s, 5) # "-"
          \/ MonthChoices(s) = <<>>
       THEN bad                                \* does not match format
       ELSE LET m == Head(MonthChoices(s))
                d == Head(DayAlternatives(s, 7 + m[1]))
                end == 6 + m[1] + d[1]         \* found.end(), 0-based
                y == 1000 * DigitVal(s[1]) + 100 * DigitVal(s[2])
                       + 10 * DigitVal(s[3]) + DigitVal(s[4])
            IN IF end # Len(s) THEN bad        \* unconverted data remains
               ELSE IF ~ValidYmd(y, m[2], d[2]) THEN bad
               ELSE [ok |-> TRUE, date |-> Ymd2Ord(y, m[2], d[2])]

---------------------------------------------------------------------------
(* find_business_day                                                       *)

\* (a step that goes back only for 'previous')
StepForwardByDefault(dir) == IF dir = "previous" THEN -1 ELSE 1

\* (a step with the two signs exchanged)
StepSwapped(dir) == IF dir = "next" THEN -1 ELSE 1

\* step = 1 if direction == 'next' else -1
Step(dir) == IF dir = "next" THEN 1 ELSE -1

\* (a walk that starts one step away from base_date)
StartAfterBase(base, stp) == base + stp

\* current_date = base_date
StartDate(base, stp) == base

\* (an addition that stops at the last date instead of failing)
AddDaysClamped(current, stp) ==
    [ok |-> TRUE,
     date |-> IF InRange(current + stp) THEN current + stp ELSE current]

\* current_date + timedelta(days=step): OverflowError outside date.min..date.max
AddDays(current, stp) ==
    IF InRange(current + stp)
    THEN [ok |-> TRUE, date |-> current + stp]
    ELSE [ok |-> FALSE, date |-> current]

\* current_date in weekends_and_holiday_dates
Excluded(current, dates) == BagIn(current, dates)

---------------------------------------------------------------------------
(* The inputs the calls are made with.                                     *)
YearPool == {1, 2012, 2023, 9999, 10000}

YearLists == SeqsUpTo(YearPool, MaxYears)

LocationPool ==
    {[country |-> "US", subdivision |-> "CA"],
     [country |-> "AU", subdivision |-> "NSW"],
     [country |-> "US", subdivision |-> "ZZ"]}

LocationDicts == SeqsUpTo(LocationPool, MaxLocations)

Directions == {"next", "previous", "nearest"}

\* windows of dates: at date.min, in the middle, at date.max
WindowStarts == {MinOrdinal, Ymd2Ord(2023, 12, 30), MaxOrdinal - WalkWindow + 1}

Window(start) == start..(start + WalkWindow - 1)

\* the base dates tried against a built exclusion list: days of its years
BaseDays == {<<1, 1>>, <<7, 4>>, <<12, 30>>, <<12, 31>>}

BaseDatesOf(ys) ==
    {Ymd2Ord(y, md[1], md[2]) : y \in Range(ys), md \in BaseDays}

YearTexts == {<<"2", "0", "2", "4">>, <<"2", "0", "2", "3">>,
              <<"0", "0", "0", "0">>, <<"2", "4">>}

MonthTexts == {<<"0", "2">>, <<"2">>, <<"1", "3">>, <<"1">>, <<"0", "1">>,
               <<"1", "2">>}

DayTexts == {<<"2", "9">>, <<"5">>, <<"0", "5">>, <<" ", "5">>, <<"0", "1">>,
             <<"3", "0">>, <<"3", "2">>}

Separators == {<<"-">>, <<"/">>}

Suffixes == {<<>>, <<" ">>}

DateStrings ==
    {y \o a \o m \o b \o d \o z :
        y \in YearTexts, a \in Separators, m \in MonthTexts,
        b \in Separators, d \in DayTexts, z \in Suffixes}

---------------------------------------------------------------------------
Init ==
    /\ pc = "idle"
    /\ caller = "client"
    /\ years = <<>>
    /\ locations_dict = <<>>
    /\ yi = 0
    /\ weekend_dates_list = <<>>
    /\ li = 0
    /\ combined_holidays = <<>>
    /\ weekends_and_holidays = EmptyBag
    /\ date_str = <<>>
    /\ parsed_date = 0
    /\ base_date = 0
    /\ exclusion = EmptyBag
    /\ direction = ""
    /\ step = 0
    /\ current_date = 0
    /\ nsteps = 0
    /\ err = NoError

walkVars == <<base_date, exclusion, direction, step, current_date, nsteps>>
parseVars == <<date_str, parsed_date>>
weekendVars == <<yi, weekend_dates_list>>
holidayVars == <<li, combined_holidays>>

\* a call of generate_weekend_dates_list(years)
CallGenerateWeekendDatesList ==
    /\ pc = "idle"
    /\ \E ys \in YearLists : years' = ys
    /\ pc' = "gw_for"
    /\ yi' = 1
    /\ weekend_dates_list' = <<>>
    /\ UNCHANGED <<caller, locations_dict, holidayVars, weekends_and_holidays,
                   parseVars, walkVars, err>>

\* one pass of `for year in years`
GenerateYear ==
    /\ pc = "gw_for"
    /\ yi <= Len(years)
    /\ LET r == WeekendsOfYear(years[yi])
       IN IF r.err = NoError
          THEN /\ weekend_dates_list' = weekend_dates_list \o r.list
               /\ yi' = yi + 1
               /\ UNCHANGED <<pc, err>>
          ELSE /\ pc' = "raised"
               /\ err' = r.err
               /\ UNCHANGED <<yi, weekend_dates_list>>
    /\ UNCHANGED <<caller, years, locations_dict, holidayVars,
                   weekends_and_holidays, parseVars, walkVars>>

\* return weekend_dates_list: to the client, or to weekend_and_holiday_dates,
\* which goes on to call combine_subdivision_holidays
GenerateReturn ==
    /\ pc = "gw_for"
    /\ yi > Len(years)
    /\ IF caller = "client"
       THEN pc' = "gw_returned" /\ UNCHANGED holidayVars
       ELSE pc' = "ch_for" /\ li' = 1 /\ combined_holidays' = <<>>
    /\ UNCHANGED <<caller, years, locations_dict, weekendVars,
                   weekends_and_holidays, parseVars, walkVars, err>>

\* a call of combine_subdivision_holidays(locations_dict, years)
CallCombineSubdivisionHolidays ==
    /\ pc = "idle"
    /\ \E ys \in YearLists :
          /\ \A k \in DOMAIN ys : ys[k] \in MINYEAR..MAXYEAR
          /\ years' = ys
    /\ \E ld \in LocationDicts : locations_dict' = ld
    /\ pc' = "ch_for"
    /\ li' = 1
    /\ combined_holidays' = <<>>
    /\ UNCHANGED <<caller, weekendVars, weekends_and_holidays, parseVars,
                   walkVars, err>>

\* (a pass that skips a jurisdiction the provider rejects)
CombineLocationSwallow ==
    /\ pc = "ch_for"
    /\ li <= Len(locations_dict)
    /\ LET info == locations_dict[li]
           r == country_holidays(info.country, info.subdivision, years)
       IN combined_holidays' = ExtendUnique(combined_holidays, r.keys)
    /\ li' = li + 1
    /\ UNCHANGED <<pc, err, caller, years, locations_dict, weekendVars,
                   weekends_and_holidays, parseVars, walkVars>>

\* one pass of `for location_id, location_info in locations_dict.items()`
CombineLocation ==
    /\ pc = "ch_for"
    /\ li <= Len(locations_dict)
    /\ LET info == locations_dict[li]
           r == country_holidays(info.country, info.subdivision, years)
       IN IF r.err = NoError
          THEN /\ combined_holidays' = ExtendUnique(combined_holidays, r.keys)
               /\ li' = li + 1
               /\ UNCHANGED <<pc, err>>
          ELSE /\ pc' = "raised"
               /\ err' = r.err
               /\ UNCHANGED holidayVars
    /\ UNCHANGED <<caller, years, locations_dict, weekendVars,
                   weekends_and_holidays, parseVars, walkVars>>

\* return combined_holidays: to the client, or to weekend_and_holiday_dates
CombineReturn ==
    /\ pc = "ch_for"
    /\ li > Len(locations_dict)
    /\ pc' = IF caller = "client" THEN "ch_returned" ELSE "wah_set"
    /\ UNCHANGED <<caller, years, locations_dict, weekendVars, holidayVars,
                   weekends_and_holidays, parseVars, walkVars, err>>

\* a call of weekend_and_holiday_dates(locations_dict, years): it calls
\* generate_weekend_dates_list first
CallWeekendAndHolidayDates ==
    /\ pc = "idle"
    /\ \E ys \in YearLists : years' = ys
    /\ \E ld \in LocationDicts : locations_dict' = ld
    /\ caller' = "weekend_and_holiday_dates"
    /\ pc' = "gw_for"
    /\ yi' = 1
    /\ weekend_dates_list' = <<>>
    /\ UNCHANGED <<holidayVars, weekends_and_holidays, parseVars, walkVars, err>>

\* weekends_and_holidays = list(set(weekends_list + holidays_list)); return
WeekendAndHolidayReturn ==
    /\ pc = "wah_set"
    /\ weekends_and_holidays' =
           UniqueInstances(weekend_dates_list, combined_holidays)
    /\ pc' = "wah_returned"
    /\ UNCHANGED <<caller, years, locations_dict, weekendVars, holidayVars,
                   parseVars, walkVars, err>>

\* a call of convert_to_date(date_str)
CallConvertToDate ==
    /\ pc = "idle"
    /\ \E s \in DateStrings : date_str' = s
    /\ pc' = "cd_try"
    /\ UNCHANGED <<caller, years, locations_dict, weekendVars, holidayVars,
                   weekends_and_holidays, parsed_date, walkVars, err>>

\* the try block: the parsed date, or the ValueError raised in its place
ConvertToDate ==
    /\ pc = "cd_try"
    /\ LET r == strptime(date_str)
       IN IF r.ok
          THEN /\ parsed_date' = r.date
               /\ pc' = "cd_returned"
               /\ UNCHANGED err
          ELSE /\ pc' = "raised"
               /\ err' = Raise("ValueError", "convert_to_date")
               /\ UNCHANGED parsed_date
    /\ UNCHANGED <<caller, years, locations_dict, weekendVars, holidayVars,
                   weekends_and_holidays, date_str, walkVars>>

\* find_business_day's first lines: step, current_date = base_date
EnterFind(base, dates, dir) ==
    /\ base_date' = base
    /\ exclusion' = dates
    /\ direction' = dir
    /\ step' = Step(dir)
    /\ current_date' = StartDate(base, Step(dir))
    /\ nsteps' = 0
    /\ pc' = "fb_while"
    /\ UNCHANGED <<caller, years, locations_dict, weekendVars, holidayVars,
                   weekends_and_holidays, parseVars, err>>

\* a call of find_business_day on any list of dates
CallFindBusinessDay ==
    /\ pc = "idle"
    /\ \E start \in WindowStarts :
         \E base \in Window(start), S \in SUBSET Window(start),
            dir \in Directions :
            EnterFind(base, SetToBag(S), dir)

\* a call of find_business_day on the list weekend_and_holiday_dates returned
CallFindBusinessDayOnBuilt ==
    /\ pc = "wah_returned"
    /\ \E base \in BaseDatesOf(years), dir \in Directions :
          EnterFind(base, weekends_and_holidays, dir)

\* the loop body: current_date += timedelta(days=step)
FindStep ==
    /\ pc = "fb_while"
    /\ Excluded(current_date, exclusion)
    /\ LET r == AddDays(current_date, step)
       IN IF r.ok
          THEN /\ current_date' = r.date
               /\ nsteps' = nsteps + 1
               /\ UNCHANGED <<pc, err>>
          ELSE /\ pc' = "raised"
               /\ err' = Raise("OverflowError", "find_business_day")
               /\ UNCHANGED <<current_date, nsteps>>
    /\ UNCHANGED <<caller, years, locations_dict, weekendVars, holidayVars,
                   weekends_and_holidays, parseVars, base_date, exclusion,
                   direction, step>>

\* the loop ends: return current_date
FindReturn ==
    /\ pc = "fb_while"
    /\ ~Excluded(current_date, exclusion)
    /\ pc' = "fb_returned"
    /\ UNCHANGED <<caller, years, locations_dict, weekendVars, holidayVars,
                   weekends_and_holidays, parseVars, walkVars, err>>

Next ==
    \/ CallGenerateWeekendDatesList
    \/ GenerateYear
    \/ GenerateReturn
    \/ CallCombineSubdivisionHolidays
    \/ CombineLocation
    \/ CombineReturn
    \/ CallWeekendAndHolidayDates
    \/ WeekendAndHolidayReturn
    \/ CallConvertToDate
    \/ ConvertToDate
    \/ CallFindBusinessDay
    \/ CallFindBusinessDayOnBuilt
    \/ FindStep
    \/ FindReturn

Spec == Init /\ [][Next]_vars

\* a call that has started goes on: nothing outside the walk can hold it up
FairSpec == Spec /\ WF_vars(FindStep) /\ WF_vars(FindReturn)

---------------------------------------------------------------------------
(* What the properties below speak of.                                     *)

\* the dates of the list find_business_day was given
Dates == BagToSet(exclusion)

InFind == pc \in {"fb_while", "fb_returned"} \/ err.at = "find_business_day"

FindRaised == pc = "raised" /\ err.at = "find_business_day"

\* the last date of the run of excluded dates that holds d, and the first
RunLast(d, S) ==
    CHOOSE e \in d..(d + Cardinality(S)) :
        (\A x \in d..e : x \in S) /\ (e + 1) \notin S

RunFirst(d, S) ==
    CHOOSE b \in (d - Cardinality(S))..d :
        (\A x \in b..d : x \in S) /\ (b - 1) \notin S

\* the year of a date
YearOf(o) ==
    CHOOSE y \in (o \div 366)..((o \div 365) + 1) :
        DaysBeforeYear(y) < o /\ o <= DaysBeforeYear(y + 1)

\* a date that is a public holiday of one of the jurisdictions
PublicHoliday(o, locations) ==
    \E k \in DOMAIN locations :
        /\ Supported(locations[k].country, locations[k].subdivision)
        /\ o \in Range(HolidaysOfYear(locations[k].country,
                                      locations[k].subdivision, YearOf(o)))

BusinessDay(o, locations) ==
    Weekday(o) \notin {5, 6} /\ ~PublicHoliday(o, locations)

---------------------------------------------------------------------------
\* C1: from a base date inside a run of consecutive excluded dates,
\* direction 'next' returns the first date after the run and 'previous' the
\* first date before it; every date from the base date up to the result is
\* excluded and the result is not.  The walk fails only when the run has no
\* date after it (before it) in the calendar.
C1_RunSkipped ==
    /\ (pc = "fb_returned" /\ base_date \in Dates /\ direction = "next") =>
          /\ current_date = RunLast(base_date, Dates) + 1
          /\ \A x \in base_date..(current_date - 1) : x \in Dates
          /\ current_date \notin Dates
    /\ (pc = "fb_returned" /\ base_date \in Dates /\ direction = "previous") =>
          /\ current_date = RunFirst(base_date, Dates) - 1
          /\ \A x \in (current_date + 1)..base_date : x \in Dates
          /\ current_date \notin Dates
    /\ (FindRaised /\ direction = "next") =>
          RunLast(base_date, Dates) = MaxOrdinal
    /\ (FindRaised /\ direction = "previous") =>
          RunFirst(base_date, Dates) = MinOrdinal

C1_Witness ==
    /\ pc = "fb_returned"
    /\ direction = "next"
    /\ base_date \in Dates
    /\ (base_date + 1) \in Dates
    /\ (base_date - 1) \in Dates
    /\ nsteps = 2

\* C2: a base date that is not excluded is returned as it is, after zero
\* passes of the loop, whatever the direction.
C2_BaseReturnedUnchanged ==
    (InFind /\ base_date \notin Dates) =>
        /\ current_date = base_date
        /\ nsteps = 0
        /\ pc # "raised"
        /\ pc = "fb_while" => ENABLED FindReturn

C2_Witness ==
    /\ pc = "fb_returned"
    /\ direction = "previous"
    /\ base_date \notin Dates
    /\ (base_date - 1) \in Dates
    /\ current_date = base_date

\* C3: the date find_business_day returns for a list built by
\* weekend_and_holiday_dates is a business day: no Saturday, no Sunday, no
\* public holiday of a configured jurisdiction.
C3_ResultIsBusinessDay ==
    (pc = "fb_returned" /\ caller = "weekend_and_holiday_dates") =>
        BusinessDay(current_date, locations_dict)

\* the Saturdays and Sundays of year y
WeekendsOf(y) ==
    {o \in Ymd2Ord(y, 1, 1)..Ymd2Ord(y, 12, 31) : Weekday(o) \in {5, 6}}

Occurrences(s, x) == Cardinality({i \in DOMAIN s : s[i] = x})

WeekendListRight(ys, list) ==
    /\ Range(list) = UNION {WeekendsOf(ys[k]) : k \in DOMAIN ys}
    /\ \A k \in DOMAIN ys : \A o \in WeekendsOf(ys[k]) :
          Occurrences(list, o) = Occurrences(ys, ys[k])

\* C4: generate_weekend_dates_list returns, for every year datetime has, a
\* list whose dates of year Y are the Saturdays and Sundays of Y, each once
\* when Y is listed once.
C4_WeekendsOfEveryYear ==
    /\ pc = "gw_returned" => WeekendListRight(years, weekend_dates_list)
    /\ (pc = "raised" /\ caller = "client"
            /\ err.at = "generate_weekend_dates_list") =>
          \E k \in DOMAIN years : years[k] \notin MINYEAR..MAXYEAR

\* the part of C4 that holds: the list of a call that returns is right
WeekendsRightWhenReturned ==
    pc = "gw_returned" => WeekendListRight(years, weekend_dates_list)

WeekendsReturnedLeapYear ==
    /\ pc = "gw_returned"
    /\ \E k \in DOMAIN years : IsLeap(years[k])
    /\ Len(weekend_dates_list) > 0


\* what the provider returned for the first n jurisdictions, in order
RECURSIVE Provided(_)
Provided(n) ==
    IF n = 0 THEN <<>>
    ELSE Provided(n - 1)
           \o country_holidays(locations_dict[n].country,
                               locations_dict[n].subdivision, years).keys

FirstIndex(s, x) == CHOOSE i \in DOMAIN s : s[i] = x /\ \A j \in 1..(i - 1) : s[j] # x

\* the jurisdictions the loop of combine_subdivision_holidays has done
Combined == IF pc = "ch_for" THEN li - 1 ELSE Len(locations_dict)

\* C5: the list of combine_subdivision_holidays holds no date twice, holds
\* every date the provider returned for a jurisdiction, and keeps the dates
\* in the order of their first appearance.
C5_CombinedUnique ==
    pc \in {"ch_for", "ch_returned", "wah_set", "wah_returned"} =>
        LET provided == Provided(Combined)
            first == [i \in DOMAIN combined_holidays |->
                         FirstIndex(provided, combined_holidays[i])]
        IN /\ Cardinality(Range(combined_holidays)) = Len(combined_holidays)
           /\ Range(combined_holidays) = Range(provided)
           /\ \A i \in 1..(Len(combined_holidays) - 1) : first[i] < first[i + 1]

C5_Witness ==
    /\ pc = "ch_returned"
    /\ Len(locations_dict) = 2
    /\ locations_dict[1] # locations_dict[2]
    /\ Len(combined_holidays) < Len(Provided(2))
    /\ Len(years) = 2

\* C6: the collection weekend_and_holiday_dates returns holds each date at
\* most once, and holds a date exactly when the weekend list or the holiday
\* list holds it.
C6_UniqueUnion ==
    pc = "wah_returned" =>
        /\ \A d \in BagToSet(weekends_and_holidays) :
              CopiesIn(d, weekends_and_holidays) = 1
        /\ BagToSet(weekends_and_holidays)
              = Range(weekend_dates_list) \cup Range(combined_holidays)

C6_Witness ==
    /\ pc = "wah_returned"
    /\ Range(weekend_dates_list) \cap Range(combined_holidays) # {}
    /\ \E i, j \in DOMAIN years : i # j /\ years[i] = years[j]

\* the literal pattern YYYY-MM-DD: ten characters, digits and two hyphens
StrictPattern(s) ==
    /\ Len(s) = 10
    /\ \A i \in {1, 2, 3, 4, 6, 7, 9, 10} : IsDigit(s[i])
    /\ s[5] = "-" /\ s[8] = "-"

Number(s, from, to) ==
    IF to - from = 3
    THEN 1000 * DigitVal(s[from]) + 100 * DigitVal(s[from + 1])
           + 10 * DigitVal(s[from + 2]) + DigitVal(s[from + 3])
    ELSE 10 * DigitVal(s[from]) + DigitVal(s[from + 1])

StrictDate(s) ==
    /\ StrictPattern(s)
    /\ ValidYmd(Number(s, 1, 4), Number(s, 6, 7), Number(s, 9, 10))

\* C7: convert_to_date returns a date exactly for the strings of the
\* pattern YYYY-MM-DD that name a date of the calendar, and that date; every
\* other string ends in the ValueError.
C7_StrictParse ==
    /\ pc = "cd_returned" =>
          /\ StrictDate(date_str)
          /\ parsed_date = Ymd2Ord(Number(date_str, 1, 4),
                                   Number(date_str, 6, 7),
                                   Number(date_str, 9, 10))
    /\ (pc = "raised" /\ err.at = "convert_to_date") => ~StrictDate(date_str)

\* the part of C7 that holds: a strict string that names a date is parsed
\* to it, and a strict string that names no date is refused
StrictStringsParsedRight ==
    /\ (pc = "cd_returned" /\ StrictPattern(date_str)) =>
          /\ StrictDate(date_str)
          /\ parsed_date = Ymd2Ord(Number(date_str, 1, 4),
                                   Number(date_str, 6, 7),
                                   Number(date_str, 9, 10))
    /\ (pc = "raised" /\ err.at = "convert_to_date") => ~StrictDate(date_str)

\* C8, as claimed: find_business_day has no error outcome.
C8_NoErrorOutcome == ~FindRaised

\* C8, amended: the loop of find_business_day runs at most once per date of
\* the list and always has a next step, so the walk ends; it ends with a
\* date, except that it ends with OverflowError when every date from the
\* base date to the end of the calendar in its direction is excluded.
C8_WalkEnds ==
    /\ InFind => nsteps <= Cardinality(Dates)
    /\ pc = "fb_while" => ENABLED (FindStep \/ FindReturn)
    /\ FindRaised =>
          /\ err.kind = "OverflowError"
          /\ IF step = 1
             THEN \A x \in base_date..MaxOrdinal : x \in Dates
             ELSE \A x \in MinOrdinal..base_date : x \in Dates
    /\ pc = "fb_returned" => InRange(current_date)

\* the walk ends, stated over behaviours
WalkTerminates == (pc = "fb_while") ~> (pc \in {"fb_returned", "raised"})

C8_Witness ==
    /\ FindRaised
    /\ direction = "next"
    /\ nsteps = 1

\* the provider knows each of the first n jurisdictions
AllSupported(n) ==
    \A k \in 1..n : Supported(locations_dict[k].country,
                              locations_dict[k].subdivision)

\* C9: once the provider has rejected a jurisdiction the call is over with
\* the provider's error: the loop goes no further, neither
\* combine_subdivision_holidays nor weekend_and_holiday_dates returns a
\* list, and the error is the provider's own.
C9_RejectionPropagates ==
    /\ pc = "ch_for" => AllSupported(li - 1)
    /\ pc \in {"ch_returned", "wah_set", "wah_returned"} =>
          AllSupported(Len(locations_dict))
    /\ (pc \in {"fb_while", "fb_returned"}
            /\ caller = "weekend_and_holiday_dates") =>
          AllSupported(Len(locations_dict))
    /\ err.kind = "UnsupportedJurisdiction" =>
          /\ pc = "raised"
          /\ err.at = "country_holidays"
          /\ ~AllSupported(li)
          /\ weekends_and_holidays = EmptyBag

C9_Witness ==
    /\ pc = "raised"
    /\ err.kind = "UnsupportedJurisdiction"
    /\ caller = "weekend_and_holiday_dates"
    /\ li = 2
    /\ combined_holidays # <<>>

\* the first date at or before d that S does not hold
PreviousFree(d, S) ==
    CHOOSE r \in (d - Cardinality(S))..d :
        r \notin S /\ \A x \in (r + 1)..d : x \in S

\* C10: no direction is refused; 'next' steps forward and its result is not
\* before the base date; every other direction steps back, and its result
\* is the one 'previous' gives, not after the base date.
C10_OtherDirectionsGoBack ==
    /\ (InFind /\ direction = "next") => step = 1
    /\ (InFind /\ direction # "next") => step = -1
    /\ FindRaised => err.kind = "OverflowError"
    /\ (pc = "fb_returned" /\ direction = "next") => current_date >= base_date
    /\ (pc = "fb_returned" /\ direction # "next") =>
          /\ current_date <= base_date
          /\ current_date = PreviousFree(base_date, Dates)

C10_Witness ==
    /\ pc = "fb_returned"
    /\ direction = "nearest"
    /\ nsteps = 2
    /\ current_date = base_date - 2

===========================================================================
